---- MODULE Spec2Model ----
(***************************************************************************)
(* Model of the Exchange calendar integration: the ExchangeClient wrapper  *)
(* (exchange_client.py), the polling coordinator (coordinator.py) and the  *)
(* calendar entity's event conversion (calendar.py).                       *)
(*                                                                         *)
(* The exchangelib library and the Exchange server are the environment:    *)
(* every library call either succeeds or raises one of the library's       *)
(* exception classes, chosen nondeterministically by the action that makes *)
(* the call.                                                               *)
(***************************************************************************)
EXTENDS Integers, Sequences, FiniteSets, TLC

(***************************************************************************)
(* Bounds of the model.                                                    *)
(***************************************************************************)
\* largest number of calendar items the server holds in the query window
MaxItems == 3
\* largest value of the max_events option
MaxEventsOpt == 2
\* largest number of successful remote writes (save, delete) in a behaviour
MaxWrites == 1
\* largest length of a server string, in the units of ServerChars
MaxServerLen == 7
\* largest number of entities the calendar platform adds for the entry, one
\* after the other (one for each setup or reload)
MaxLives == 3

None == "None"

Min(a, b) == IF a <= b THEN a ELSE b

\* the smallest element of a set of positions
FirstOf(S) == CHOOSE i \in S : \A j \in S : i <= j

(***************************************************************************)
(* Dates and datetimes.  A value carries its Python class, a day number,   *)
(* an hour of the day and, when timezone-aware, the UTC offset (in hours)  *)
(* of its tzinfo.  EWSDateTime is a subclass of datetime, EWSDate of date, *)
(* and datetime is a subclass of date.                                     *)
(***************************************************************************)
HoursPerDay == 24

\* the host's local timezone (dt_util.DEFAULT_TIME_ZONE), as a UTC offset
DEFAULT_TIME_ZONE == 1

EWSDateTime(d, h, tz) == [cls |-> "EWSDateTime", d |-> d, h |-> h, aware |-> TRUE, tz |-> tz]
EWSDate(d) == [cls |-> "EWSDate", d |-> d, h |-> 0, aware |-> FALSE, tz |-> 0]
PyDateTime(d, h, aware, tz) == [cls |-> "datetime", d |-> d, h |-> h, aware |-> aware, tz |-> tz]
PyDate(d) == [cls |-> "date", d |-> d, h |-> 0, aware |-> FALSE, tz |-> 0]
\* a start or end that is None
NoneDate == [cls |-> "NoneType", d |-> 0, h |-> 0, aware |-> FALSE, tz |-> 0]

\* isinstance(v, datetime)
IsDateTime(v) == v.cls \in {"EWSDateTime", "datetime"}
\* isinstance(v, date)
IsDate(v) == v.cls \in {"EWSDateTime", "datetime", "EWSDate", "date"}
\* hasattr(v, "date"): datetime objects have a date() method, date objects do not
HasDateAttr(v) == IsDateTime(v)
\* v.date() of an EWSDateTime is an EWSDate, of a datetime a date
DateOf(v) == IF v.cls = "EWSDateTime" THEN EWSDate(v.d) ELSE PyDate(v.d)

\* the instant a timezone-aware datetime denotes, in hours since the epoch (UTC)
Instant(v) == v.d * HoursPerDay + v.h - v.tz

\* dt_util.as_local: the same instant in the host's local timezone
AsLocal(v) ==
    LET loc == Instant(v) + DEFAULT_TIME_ZONE
    IN  PyDateTime(loc \div HoursPerDay, loc % HoursPerDay, TRUE, DEFAULT_TIME_ZONE)

(***************************************************************************)
(* ExchangeClient._sort_key: a naive datetime, here its hours since the    *)
(* epoch read off the wall clock (the timezone is dropped, not converted). *)
(***************************************************************************)
\* as _sort_key, with an aware datetime converted to UTC instead of stripped
SortKeyUtc(v) ==
    IF IsDateTime(v)
    THEN IF v.aware THEN Instant(v) ELSE v.d * HoursPerDay + v.h
    ELSE v.d * HoursPerDay

_sort_key(v) ==
    IF IsDateTime(v)
    THEN v.d * HoursPerDay + v.h
    ELSE v.d * HoursPerDay

(***************************************************************************)
(* ExchangeClient._to_python_dt                                            *)
(***************************************************************************)
_to_python_dt(v) ==
    IF v = NoneDate THEN NoneDate
    ELSE IF IsDateTime(v) THEN PyDateTime(v.d, v.h, v.aware, v.tz)
    ELSE IF IsDate(v) THEN PyDate(v.d)
    ELSE v

(***************************************************************************)
(* ExchangeClient._convert_calendar_item                                   *)
(***************************************************************************)
\* item.organizer.name or getattr(item.organizer, "email_address", "") or ""
OrganizerName(o) ==
    IF ~o.present THEN ""
    ELSE IF o.name # "" THEN o.name
    ELSE o.email_address

\* the all-day branch, applied to start and to end
AllDayValue(v) ==
    LET v1 == IF HasDateAttr(v) THEN DateOf(v) ELSE v
    IN  IF IsDate(v1) /\ ~IsDateTime(v1) THEN PyDate(v1.d) ELSE v1

\* as _convert_calendar_item, without the all-day branch
ConvertIgnoringAllDay(item) ==
    [uid |-> IF item.uid # None THEN item.uid ELSE item.id,
     summary |-> IF item.subject # "" THEN item.subject ELSE "(No subject)",
     start |-> _to_python_dt(item.start),
     end |-> _to_python_dt(item.end),
     location |-> item.location,
     description |-> item.body,
     organizer |-> OrganizerName(item.organizer),
     is_all_day |-> item.is_all_day]

_convert_calendar_item(item) ==
    [uid |-> IF item.uid # None THEN item.uid ELSE item.id,
     summary |-> IF item.subject # "" THEN item.subject ELSE "(No subject)",
     start |-> IF item.is_all_day THEN AllDayValue(item.start) ELSE _to_python_dt(item.start),
     end |-> IF item.is_all_day THEN AllDayValue(item.end) ELSE _to_python_dt(item.end),
     location |-> item.location,
     description |-> item.body,
     organizer |-> OrganizerName(item.organizer),
     is_all_day |-> item.is_all_day]

(***************************************************************************)
(* Exceptions.  An exception is named by its class; Ancestors gives the    *)
(* classes an instance belongs to (exchangelib.errors: the Error... classes*)
(* derive from ResponseMessageError, which derives from TransportError;    *)
(* UnauthorizedError derives from EWSError directly).                      *)
(***************************************************************************)
Ok == "ok"

Ancestors(e) ==
    CASE e = "TransportError" -> {"TransportError", "EWSError", "Exception"}
      [] e = "UnauthorizedError" -> {"UnauthorizedError", "EWSError", "Exception"}
      [] e = "AutoDiscoverFailed" ->
            {"AutoDiscoverFailed", "AutoDiscoverError", "TransportError", "EWSError", "Exception"}
      [] e \in {"ErrorAccessDenied", "ErrorItemNotFound", "ErrorMailboxStoreUnavailable",
                "ErrorMailboxMoveInProgress", "ErrorFolderNotFound", "ErrorNonExistentMailbox"} ->
            {e, "ResponseMessageError", "TransportError", "EWSError", "Exception"}
      [] e = "ConnectionError" -> {"ConnectionError", "OSError", "Exception"}
      [] e = "IndexError" -> {"IndexError", "LookupError", "Exception"}
      [] OTHER -> {e, "Exception"}

\* "except (classes)" catches e
Catches(classes, e) == Ancestors(e) \cap classes # {}

\* what the library can raise while the Account is built
ConnectFaults ==
    {"UnauthorizedError", "ErrorAccessDenied", "TransportError", "AutoDiscoverFailed",
     "ConnectionError", "RuntimeError"}
\* what the library can raise while a calendar view is read
ViewFaults ==
    {"TransportError", "ErrorMailboxStoreUnavailable", "ErrorMailboxMoveInProgress",
     "UnauthorizedError", "ErrorAccessDenied", "RuntimeError"}

(***************************************************************************)
(* const.py: the authentication types.                                     *)
(***************************************************************************)
AUTH_TYPE_NTLM == "ntlm"
AUTH_TYPE_BASIC == "basic"
AUTH_TYPE_OAUTH2 == "oauth2"

(***************************************************************************)
(* ExchangeClient.__init__: the configurations a client is built with.     *)
(* "kerberos" stands for an auth type outside the three known ones.        *)
(***************************************************************************)
ClientConfig(auth, username, domain, insecure) ==
    [auth_type |-> auth, email |-> "user@example.com", server |-> "ex.example.com",
     username |-> username, password |-> "pw", domain |-> domain,
     client_id |-> "cid", client_secret |-> "sec", tenant_id |-> "tid",
     allow_insecure_ssl |-> insecure]

ClientConfigs ==
    {ClientConfig(AUTH_TYPE_NTLM, "user", "DOM", FALSE),
     ClientConfig(AUTH_TYPE_NTLM, "DOM\\user", "DOM", TRUE),
     ClientConfig(AUTH_TYPE_BASIC, "user@example.com", "DOM", FALSE),
     ClientConfig(AUTH_TYPE_BASIC, "user", None, TRUE),
     ClientConfig(AUTH_TYPE_OAUTH2, "user@example.com", None, FALSE),
     ClientConfig("kerberos", "user", None, FALSE)}

\* '"\\" in username' and '"@" in username' for the usernames of ClientConfigs
HasBackslash(u) == u = "DOM\\user"
HasAt(u) == u = "user@example.com"

NoAccount == [cls |-> "NoneType", email |-> None, credentials |-> None, username |-> <<>>,
              server |-> None, auth_type |-> None]

(***************************************************************************)
(* ExchangeClient._clean_server.  A server string is a sequence of units:  *)
(* a scheme with its colon (in lower or in upper case), a slash, a blank   *)
(* and a host name; "https://" is the three units "https:", "/", "/".      *)
(***************************************************************************)
ServerChars == {"https:", "HTTP:", "/", " ", "ex.example.com"}

\* str.lower, unit by unit
Lower(ch) == IF ch = "HTTP:" THEN "http:" ELSE ch

\* s.lower().startswith(prefix)
LowerStartsWith(s, prefix) ==
    /\ Len(s) >= Len(prefix)
    /\ \A i \in 1..Len(prefix) : Lower(s[i]) = prefix[i]

\* str.lstrip and str.rstrip of the characters in chars
RECURSIVE LStrip(_, _)
LStrip(s, chars) ==
    IF s # <<>> /\ s[1] \in chars THEN LStrip(Tail(s), chars) ELSE s

RECURSIVE RStrip(_, _)
RStrip(s, chars) ==
    IF s # <<>> /\ s[Len(s)] \in chars THEN RStrip(SubSeq(s, 1, Len(s) - 1), chars) ELSE s

_clean_server(server) ==
    LET Cut(s) ==
            IF LowerStartsWith(s, <<"https:", "/", "/">>) THEN SubSeq(s, 4, Len(s))
            ELSE IF LowerStartsWith(s, <<"http:", "/", "/">>) THEN SubSeq(s, 4, Len(s))
            ELSE s
    IN  RStrip(Cut(RStrip(LStrip(server, {" "}), {" "})), {"/"})


(*   account   self._account                                               *)
(*   orig      self._original_adapter_cls                                  *)
(*   adapter   BaseProtocol.HTTP_ADAPTER_CLS (process-wide)                *)
(***************************************************************************)
ClientState(account, orig, adapter) == [account |-> account, orig |-> orig, adapter |-> adapter]

\* ExchangeClient._setup_ssl
_setup_ssl(c, st) ==
    IF c.allow_insecure_ssl
    THEN [st EXCEPT !.orig = st.adapter, !.adapter = "NoVerifyHTTPAdapter"]
    ELSE st

\* ExchangeClient._restore_ssl
_restore_ssl(c, st) ==
    IF st.orig # None
    THEN [st EXCEPT !.adapter = st.orig, !.orig = None]
    ELSE st

(***************************************************************************)
(* ExchangeClient._build_credentials: the credentials, or the exception.   *)
(***************************************************************************)
\* as _build_credentials, with the final raise left out
BuildCredentialsFallThrough(c) ==
    IF c.auth_type \in {AUTH_TYPE_NTLM, AUTH_TYPE_BASIC}
    THEN [exc |-> Ok, cls |-> "Credentials", username |-> <<c.username>>]
    ELSE [exc |-> Ok, cls |-> "OAuth2Credentials", username |-> <<>>]

_build_credentials(c) ==
    IF c.auth_type \in {AUTH_TYPE_NTLM, AUTH_TYPE_BASIC}
    THEN [exc |-> Ok, cls |-> "Credentials",
          username |-> IF c.domain \notin {None, ""} /\ ~HasBackslash(c.username)
                          /\ ~HasAt(c.username)
                       THEN <<c.domain, c.username>>
                       ELSE <<c.username>>]
    ELSE IF c.auth_type = AUTH_TYPE_OAUTH2
    THEN [exc |-> Ok, cls |-> "OAuth2Credentials", username |-> <<>>]
    ELSE [exc |-> "ValueError", cls |-> None, username |-> <<>>]

(***************************************************************************)
(* ExchangeClient._build_config                                            *)
(***************************************************************************)
_build_config(c, credentials) ==
    IF c.auth_type = AUTH_TYPE_NTLM
    THEN [server |-> c.server, credentials |-> credentials, auth_type |-> "NTLM"]
    ELSE IF c.auth_type = AUTH_TYPE_BASIC
    THEN [server |-> c.server, credentials |-> credentials, auth_type |-> "BASIC"]
    ELSE [server |-> "outlook.office365.com", credentials |-> credentials, auth_type |-> None]

\* Account(primary_smtp_address=self._email, config=config, ...)
Account(c, config) ==
    [cls |-> "Account", email |-> c.email, credentials |-> config.credentials.cls,
     username |-> config.credentials.username, server |-> config.server,
     auth_type |-> config.auth_type]

(***************************************************************************)
(* The outcome of a client operation:                                      *)
(*   exc       the exception it leaves with, or Ok                         *)
(*   st        the client state it leaves                                  *)
(*   value     what it returns (a list of event records)                   *)
(*   lib       the library exception that was raised inside it, or Ok      *)
(*   at        the call that raised lib                                    *)
(*   connects, views   the calls to connect and to calendar.view it made   *)
(*   fetches   the calls to get_events it made                             *)
(***************************************************************************)
Outcome(exc, st, value, lib, at, connects, views) ==
    [exc |-> exc, st |-> st, value |-> value, lib |-> lib, at |-> at,
     connects |-> connects, views |-> views, fetches |-> 0, pos |-> 0]

\* the except clauses of connect
ConnectExcept(e) ==
    IF Catches({"UnauthorizedError", "ErrorAccessDenied"}, e) THEN "ExchangeAuthError"
    ELSE IF Catches({"TransportError", "AutoDiscoverFailed", "ConnectionError"}, e)
    THEN "ExchangeConnectionError"
    ELSE IF Catches({"Exception"}, e) THEN "ExchangeConnectionError"
    ELSE e

(***************************************************************************)
(* ExchangeClient.connect.  lib is what the library does when the Account  *)
(* is built: Ok, or the exception it raises.                               *)
(***************************************************************************)
connect(c, st, lib) ==
    LET Try(st1, credentials) ==
            IF credentials.exc # Ok
            THEN Outcome(ConnectExcept(credentials.exc), st1, <<>>, credentials.exc,
                         "_build_credentials", 1, 0)
            ELSE IF lib # Ok
            THEN Outcome(ConnectExcept(lib), st1, <<>>, lib, "Account", 1, 0)
            ELSE Outcome(Ok, [st1 EXCEPT !.account = Account(c, _build_config(c, credentials))],
                         <<>>, Ok, None, 1, 0)
    IN  Try(_setup_ssl(c, st), _build_credentials(c))

(***************************************************************************)
(* account.calendar.view(start=now, end=end, max_items=n): the server's    *)
(* items of the query window, in the order the server returns them, cut to *)
(* the first n.                                                            *)
(***************************************************************************)
CalendarView(cal, max_items) == SubSeq(cal, 1, Min(Len(cal), max_items))

(***************************************************************************)
(* ExchangeClient.validate_connection.  co is what the library does when   *)
(* the Account is built, vo what it does when the test view is read.       *)
(***************************************************************************)
ValidateExcept(e) ==
    IF e \in {"ExchangeAuthError", "ExchangeConnectionError"} THEN e
    ELSE IF Catches({"Exception"}, e) THEN "ExchangeConnectionError"
    ELSE e

validate_connection(c, st, cal, co, vo) ==
    LET Try(r) ==
            IF r.exc # Ok THEN [r EXCEPT !.exc = ValidateExcept(r.exc)]
            ELSE IF vo # Ok
            THEN Outcome(ValidateExcept(vo), r.st, <<>>, vo, "view", 1, 1)
            ELSE Outcome(Ok, r.st, <<>>, Ok, None, 1, 1)
    IN  Try(connect(c, st, co))

(***************************************************************************)
(* ExchangeClient._ensure_connected                                        *)
(***************************************************************************)
\* as _ensure_connected, without the test of the stored account
EnsureConnectedAlways(c, st, co) ==
    connect(c, st, co)

_ensure_connected(c, st, co) ==
    IF st.account = NoAccount
    THEN connect(c, st, co)
    ELSE Outcome(Ok, st, <<>>, Ok, None, 0, 0)

(***************************************************************************)
(* events.sort(key=lambda e: self._sort_key(e["start"])): list.sort is     *)
(* stable, so records with equal keys keep the order they were appended in.*)
(***************************************************************************)
RECURSIVE Insert(_, _)
Insert(sorted, e) ==
    IF sorted = <<>> THEN <<e>>
    ELSE IF _sort_key(sorted[Len(sorted)].start) <= _sort_key(e.start)
    THEN Append(sorted, e)
    ELSE Append(Insert(SubSeq(sorted, 1, Len(sorted) - 1), e), sorted[Len(sorted)])

RECURSIVE SortEvents(_)
SortEvents(events) ==
    IF events = <<>> THEN <<>>
    ELSE Insert(SortEvents(SubSeq(events, 1, Len(events) - 1)), events[Len(events)])

(***************************************************************************)
(* ExchangeClient.get_events.  co is what the library does if the client   *)
(* has to connect, vo what it does when the calendar view is read.         *)
(***************************************************************************)
GetEventsExcept(e) ==
    IF Catches({"TransportError", "ErrorMailboxStoreUnavailable",
                "ErrorMailboxMoveInProgress"}, e)
    THEN "ExchangeConnectionError"
    ELSE e

\* the loop over the view: each item converted and appended
ConvertAll(items) == [i \in 1..Len(items) |-> _convert_calendar_item(items[i])]

\* events[:max_events]
Truncate(events, max_events) == SubSeq(events, 1, Min(Len(events), max_events))

get_events(c, st, cal, max_events, co, vo) ==
    LET Fetch(ec) ==
            IF ec.exc # Ok THEN [ec EXCEPT !.fetches = 1]
            ELSE IF vo # Ok
            THEN [Outcome(GetEventsExcept(vo),
                          IF GetEventsExcept(vo) = "ExchangeConnectionError"
                          THEN [ec.st EXCEPT !.account = NoAccount] ELSE ec.st,
                          <<>>, vo, "view", ec.connects, 1) EXCEPT !.fetches = 1]
            ELSE [Outcome(Ok, ec.st,
                          Truncate(SortEvents(ConvertAll(CalendarView(cal, max_events))),
                                   max_events),
                          Ok, None, ec.connects, 1) EXCEPT !.fetches = 1]
    IN  Fetch(_ensure_connected(c, st, co))

(***************************************************************************)
(* ExchangeCalendarCoordinator._async_update_data: the poll callback.      *)
(***************************************************************************)
\* as the except clauses below, without the last one
UpdateExceptCategories(e) ==
    IF Catches({"ExchangeAuthError"}, e) THEN "UpdateFailed"
    ELSE IF Catches({"ExchangeConnectionError"}, e) THEN "UpdateFailed"
    ELSE e

\* the except clauses of _async_update_data
UpdateExcept(e) ==
    IF Catches({"ExchangeAuthError"}, e) THEN "UpdateFailed"
    ELSE IF Catches({"ExchangeConnectionError"}, e) THEN "UpdateFailed"
    ELSE IF Catches({"Exception"}, e) THEN "UpdateFailed"
    ELSE e

\* as _async_update_data, with a failed fetch answered by an empty list
AsyncUpdateDataSwallow(c, st, cal, max_events, co, vo) ==
    LET Try(r) == IF r.exc # Ok THEN [r EXCEPT !.exc = Ok, !.value = <<>>] ELSE r
    IN  Try(get_events(c, st, cal, max_events, co, vo))

\* as _async_update_data, with a failed fetch tried once more
AsyncUpdateDataRetry(c, st, cal, max_events, co, vo) ==
    LET Again(r, r2) ==
            [r2 EXCEPT !.exc = IF r2.exc # Ok THEN UpdateExcept(r2.exc) ELSE Ok,
                       !.connects = r.connects + r2.connects,
                       !.views = r.views + r2.views,
                       !.fetches = r.fetches + r2.fetches]
        Try(r) == IF r.exc # Ok
                  THEN Again(r, get_events(c, r.st, cal, max_events, co, vo))
                  ELSE r
    IN  Try(get_events(c, st, cal, max_events, co, vo))

_async_update_data(c, st, cal, max_events, co, vo) ==
    LET Try(r) == IF r.exc # Ok THEN [r EXCEPT !.exc = UpdateExcept(r.exc)] ELSE r
    IN  Try(get_events(c, st, cal, max_events, co, vo))

(***************************************************************************)
(* The host's DataUpdateCoordinator: it keeps the result of the last poll  *)
(* that succeeded; a poll that raises UpdateFailed leaves it as it is.     *)
(***************************************************************************)
NoData == [fetched |-> FALSE, events |-> <<>>]

HostRefresh(old, r) ==
    IF r.exc = Ok THEN [fetched |-> TRUE, events |-> r.value] ELSE old

(***************************************************************************)
(* ExchangeCalendarEntity._to_calendar_event                               *)
(***************************************************************************)
_to_calendar_event(ev) ==
    [summary |-> ev.summary,
     start |-> IF IsDateTime(ev.start) /\ ev.start.aware THEN AsLocal(ev.start) ELSE ev.start,
     end |-> IF IsDateTime(ev.end) /\ ev.end.aware THEN AsLocal(ev.end) ELSE ev.end,
     description |-> ev.description,
     location |-> ev.location,
     uid |-> ev.uid]

(***************************************************************************)
(* ExchangeCalendarEntity._to_comparable_datetime: a timezone-aware        *)
(* datetime; two of them compare by the instants they denote.              *)
(***************************************************************************)
_to_comparable_datetime(value) ==
    IF IsDateTime(value)
    THEN IF ~value.aware
         THEN PyDateTime(value.d, value.h, TRUE, DEFAULT_TIME_ZONE)
         ELSE value
    ELSE PyDateTime(value.d, 0, TRUE, DEFAULT_TIME_ZONE)

\* the CalendarEvent that is no event: None
NoEvent == [summary |-> None, start |-> NoneDate, end |-> NoneDate, description |-> None,
            location |-> None, uid |-> None]

(***************************************************************************)
(* ExchangeCalendarEntity.event: events is coordinator.data, now is        *)
(* dt_util.now().                                                          *)
(***************************************************************************)
event(events, now) ==
    LET First(live) ==
            IF live = {} THEN NoEvent ELSE _to_calendar_event(events[FirstOf(live)])
    IN  IF events = <<>> THEN NoEvent
        ELSE First({i \in 1..Len(events) :
                      Instant(_to_comparable_datetime(events[i].end)) >= Instant(now)})

(***************************************************************************)
(* ExchangeCalendarEntity.async_get_events                                 *)
(***************************************************************************)
\* as async_get_events, with the bounds of the range included
AsyncGetEventsInclusive(events, start_date, end_date) ==
    LET Overlaps(ev) ==
            /\ Instant(_to_comparable_datetime(ev.end)) >= Instant(start_date)
            /\ Instant(_to_comparable_datetime(ev.start)) <= Instant(end_date)
        Converted(kept) == [i \in 1..Len(kept) |-> _to_calendar_event(kept[i])]
    IN  IF events = <<>> THEN <<>> ELSE Converted(SelectSeq(events, Overlaps))

async_get_events(events, start_date, end_date) ==
    LET Overlaps(ev) ==
            /\ Instant(_to_comparable_datetime(ev.end)) > Instant(start_date)
            /\ Instant(_to_comparable_datetime(ev.start)) < Instant(end_date)
        Converted(kept) == [i \in 1..Len(kept) |-> _to_calendar_event(kept[i])]
    IN  IF events = <<>> THEN <<>> ELSE Converted(SelectSeq(events, Overlaps))

(***************************************************************************)
(* ExchangeClient._to_ews_datetime: tz is account.default_timezone.        *)
(***************************************************************************)
AccountTimeZone == 2

_to_ews_datetime(dt, tz) ==
    IF IsDate(dt) /\ ~IsDateTime(dt) THEN EWSDateTime(dt.d, 0, tz)
    ELSE IF ~dt.aware THEN EWSDateTime(dt.d, dt.h, tz)
    ELSE EWSDateTime(dt.d, dt.h, dt.tz)

(***************************************************************************)
(* Remote writes.  The outcome of update_event and delete_event carries,   *)
(* besides the fields of Outcome, the calendar the server holds afterwards *)
(* (cal) and the writes the operation sent (log): each names the position  *)
(* of the item written, its UID and, for a save, the update_fields.  pos   *)
(* is the position of the item the lookup found, 0 when it found none.     *)
(***************************************************************************)
WriteOutcome(exc, st, lib, at, connects, pos, cal, log) ==
    [exc |-> exc, st |-> st, value |-> <<>>, lib |-> lib, at |-> at,
     connects |-> connects, views |-> 0, fetches |-> 0, pos |-> pos, cal |-> cal,
     log |-> log]

\* the positions of the calendar items account.calendar.filter(uid=uid) returns
FilterUid(cal, uid) == {i \in 1..Len(cal) : cal[i].uid = uid}

(***************************************************************************)
(* ExchangeClient._get_item_by_uid: pos is the position of the item found, *)
(* or 0 for None; exc the exception the lookup leaves with.  co, fo: what  *)
(* the library does if the client has to connect, and when the filter is   *)
(* read.                                                                   *)
(***************************************************************************)
Lookup(ec, exc, lib, at, pos) ==
    [exc |-> exc, st |-> ec.st, lib |-> lib, at |-> at, connects |-> ec.connects, pos |-> pos]

\* as _get_item_by_uid, with the filter by UID left out
GetItemUnfiltered(c, st, cal, uid, co, fo) ==
    LET Find(ec, items) ==
            IF ec.exc # Ok THEN Lookup(ec, ec.exc, ec.lib, ec.at, 0)
            ELSE IF fo # Ok /\ Catches({"ErrorItemNotFound", "IndexError"}, fo)
            THEN Lookup(ec, Ok, fo, "filter", 0)
            ELSE IF fo # Ok THEN Lookup(ec, fo, fo, "filter", 0)
            ELSE IF items # {} THEN Lookup(ec, Ok, Ok, None, FirstOf(items))
            ELSE Lookup(ec, Ok, Ok, None, 0)
    IN  Find(_ensure_connected(c, st, co), 1..Len(cal))

_get_item_by_uid(c, st, cal, uid, co, fo) ==
    LET Find(ec, items) ==
            IF ec.exc # Ok THEN Lookup(ec, ec.exc, ec.lib, ec.at, 0)
            ELSE IF fo # Ok /\ Catches({"ErrorItemNotFound", "IndexError"}, fo)
            THEN Lookup(ec, Ok, fo, "filter", 0)
            ELSE IF fo # Ok THEN Lookup(ec, fo, fo, "filter", 0)
            ELSE IF items # {} THEN Lookup(ec, Ok, Ok, None, FirstOf(items))
            ELSE Lookup(ec, Ok, Ok, None, 0)
    IN  Find(_ensure_connected(c, st, co), FilterUid(cal, uid))

\* as UpdateFields, with each argument tested for truth instead of against None
UpdateFieldsTruthy(args) ==
    (IF args.summary \notin {None, ""} THEN <<"subject">> ELSE <<>>)
    \o (IF args.start # NoneDate THEN <<"start">> ELSE <<>>)
    \o (IF args.end # NoneDate THEN <<"end">> ELSE <<>>)
    \o (IF args.description \notin {None, ""} THEN <<"body">> ELSE <<>>)
    \o (IF args.location \notin {None, ""} THEN <<"location">> ELSE <<>>)

\* the update_fields list update_event builds from its arguments
UpdateFields(args) ==
    (IF args.summary # None THEN <<"subject">> ELSE <<>>)
    \o (IF args.start # NoneDate THEN <<"start">> ELSE <<>>)
    \o (IF args.end # NoneDate THEN <<"end">> ELSE <<>>)
    \o (IF args.description # None THEN <<"body">> ELSE <<>>)
    \o (IF args.location # None THEN <<"location">> ELSE <<>>)

\* the item with the non-None arguments assigned
Assigned(item, args, tz) ==
    [item EXCEPT
        !.subject = IF args.summary # None THEN args.summary ELSE @,
        !.start = IF args.start # NoneDate THEN _to_ews_datetime(args.start, tz) ELSE @,
        !.end = IF args.end # NoneDate THEN _to_ews_datetime(args.end, tz) ELSE @,
        !.body = IF args.description # None THEN args.description ELSE @,
        !.location = IF args.location # None THEN args.location ELSE @]

(***************************************************************************)
(* ExchangeClient.update_event.  co, fo, so: what the library does when    *)
(* the client has to connect, when the filter is read and when the item is *)
(* saved.                                                                  *)
(***************************************************************************)
update_event(c, st, cal, uid, args, co, fo, so) ==
    LET Save(n, found, fields) ==
            IF found.exc # Ok
            THEN WriteOutcome(found.exc, found.st, found.lib, found.at, n, 0, cal, <<>>)
            ELSE IF found.pos = 0
            THEN WriteOutcome("ExchangeConnectionError", found.st, found.lib, found.at, n,
                              0, cal, <<>>)
            ELSE IF fields = <<>>
            THEN WriteOutcome(Ok, found.st, Ok, None, n, found.pos, cal, <<>>)
            ELSE IF so # Ok
            THEN WriteOutcome(so, found.st, so, "save", n, found.pos, cal, <<>>)
            ELSE WriteOutcome(Ok, found.st, Ok, None, n, found.pos,
                     [cal EXCEPT ![found.pos] = Assigned(@, args, AccountTimeZone)],
                     <<[op |-> "save", pos |-> found.pos, uid |-> cal[found.pos].uid,
                        update_fields |-> fields]>>)
        Update(ec) ==
            IF ec.exc # Ok
            THEN WriteOutcome(ec.exc, ec.st, ec.lib, ec.at, ec.connects, 0, cal, <<>>)
            ELSE Save(ec.connects, _get_item_by_uid(c, ec.st, cal, uid, co, fo),
                      UpdateFields(args))
    IN  Update(_ensure_connected(c, st, co))

(***************************************************************************)
(* ExchangeClient.delete_event.  co, fo, so: as for update_event, so for   *)
(* the delete.                                                             *)
(***************************************************************************)
delete_event(c, st, cal, uid, co, fo, so) ==
    LET Delete(found) ==
            IF found.exc # Ok
            THEN WriteOutcome(found.exc, found.st, found.lib, found.at, found.connects,
                              0, cal, <<>>)
            ELSE IF found.pos = 0
            THEN WriteOutcome("ExchangeConnectionError", found.st, found.lib, found.at,
                              found.connects, 0, cal, <<>>)
            ELSE IF so # Ok
            THEN WriteOutcome(so, found.st, so, "delete", found.connects, found.pos, cal, <<>>)
            ELSE WriteOutcome(Ok, found.st, Ok, None, found.connects, found.pos,
                     SubSeq(cal, 1, found.pos - 1) \o SubSeq(cal, found.pos + 1, Len(cal)),
                     <<[op |-> "delete", pos |-> found.pos, uid |-> cal[found.pos].uid,
                        update_fields |-> <<>>]>>)
    IN  Delete(_get_item_by_uid(c, st, cal, uid, co, fo))

(***************************************************************************)
(* The calendar items the server can hold.  An organizer is the item's     *)
(* Mailbox, or absent.                                                     *)
(***************************************************************************)
Organizer(name, email_address) == [present |-> TRUE, name |-> name, email_address |-> email_address]
NoOrganizer == [present |-> FALSE, name |-> "", email_address |-> ""]

CalendarItem(uid, subject, is_all_day, start, end, location, body, organizer) ==
    [uid |-> uid, id |-> "id-" \o uid, subject |-> subject, is_all_day |-> is_all_day,
     start |-> start, end |-> end, location |-> location, body |-> body,
     organizer |-> organizer]

ItemPool ==
    {CalendarItem("u1", "Standup", FALSE, EWSDateTime(1, 23, 0), EWSDateTime(2, 0, 0),
                  "Room 1", "daily", Organizer("Ann", "ann@example.com")),
     CalendarItem("u2", "", FALSE, EWSDateTime(2, 0, 2), EWSDateTime(2, 1, 2),
                  "", "", Organizer("", "bob@example.com")),
     CalendarItem("u3", "Holiday", TRUE, EWSDate(2), EWSDate(3),
                  "", "", NoOrganizer),
     CalendarItem("u4", "Fair", TRUE, EWSDateTime(1, 22, 0), EWSDateTime(2, 22, 0),
                  "Hall", "", NoOrganizer)}

\* the calendars of at most MaxItems distinct items, in every server order
Calendars ==
    {cal \in UNION {[1..n -> ItemPool] : n \in 0..MaxItems} :
        \A i, j \in 1..Len(cal) : i # j => cal[i] # cal[j]}

\* the UIDs an update or a delete is asked for
Uids == {"u1", "u9"}

\* the arguments of update_event: each is None or a new value
NoArgs == [summary |-> None, start |-> NoneDate, end |-> NoneDate,
           description |-> None, location |-> None]

UpdateArgs ==
    {NoArgs,
     [NoArgs EXCEPT !.summary = "Moved"],
     [NoArgs EXCEPT !.start = PyDateTime(3, 9, FALSE, 0), !.end = PyDate(4)],
     [summary |-> "", start |-> PyDateTime(3, 9, TRUE, 0), end |-> PyDateTime(3, 10, TRUE, 0),
      description |-> "new text", location |-> "Room 2"]}

\* the arguments async_create_event passes to create_event
CreateArgs ==
    {[summary |-> "Lunch", start |-> PyDateTime(3, 12, TRUE, 1), end |-> PyDateTime(3, 13, TRUE, 1),
      description |-> "", location |-> "Canteen"],
     [summary |-> "", start |-> PyDate(3), end |-> PyDate(4),
      description |-> "", location |-> ""]}

\* the UID the server gives a new item: one no item of the calendar has
NewUid(cal) ==
    CHOOSE u \in {"n1", "n2", "n3", "n4"} : \A i \in 1..Len(cal) : cal[i].uid # u

(***************************************************************************)
(* ExchangeClient.create_event.  co, so: what the library does when the    *)
(* client has to connect and when the new item is saved.                   *)
(***************************************************************************)
create_event(c, st, cal, args, co, so) ==
    LET Create(ec) ==
            IF ec.exc # Ok
            THEN WriteOutcome(ec.exc, ec.st, ec.lib, ec.at, ec.connects, 0, cal, <<>>)
            ELSE IF so # Ok
            THEN WriteOutcome(so, ec.st, so, "save", ec.connects, 0, cal, <<>>)
            ELSE WriteOutcome(Ok, ec.st, Ok, None, ec.connects, Len(cal) + 1,
                     Append(cal, CalendarItem(NewUid(cal), args.summary, FALSE,
                                     _to_ews_datetime(args.start, AccountTimeZone),
                                     _to_ews_datetime(args.end, AccountTimeZone),
                                     args.location, args.description, NoOrganizer)),
                     <<[op |-> "create", pos |-> Len(cal) + 1, uid |-> NewUid(cal),
                        update_fields |-> <<>>]>>)
    IN  Create(_ensure_connected(c, st, co))

(***************************************************************************)
(* ExchangeCalendarEntity.async_create_event, async_update_event and       *)
(* async_delete_event: r is what the client operation left with.  The      *)
(* entity method leaves with the same exception, or calls                  *)
(* coordinator.async_request_refresh.                                      *)
(***************************************************************************)
\* as async_service, with the refresh requested whatever the operation did
AsyncServiceAlwaysRefresh(r) ==
    [exc |-> r.exc, refresh_requests |-> 1]

async_service(r) ==
    IF r.exc # Ok
    THEN [exc |-> r.exc, refresh_requests |-> 0]
    ELSE [exc |-> Ok, refresh_requests |-> 1]

(***************************************************************************)
(* State.                                                                  *)
(*   cfg                   the configuration the client was built with     *)
(*   max_events            the max_events option of the config entry       *)
(*   account               ExchangeClient._account                         *)
(*   original_adapter_cls  ExchangeClient._original_adapter_cls            *)
(*   HTTP_ADAPTER_CLS      BaseProtocol.HTTP_ADAPTER_CLS                   *)
(*   calendar              the server's items of the query window, in the  *)
(*                         order the server returns them                   *)
(*   data                  the coordinator's cached data                   *)
(*   writes                the remote writes that succeeded so far         *)
(*   last                  the last operation and what it did              *)
(*   entity                the calendar entity of the entry                *)
(*   flow                  the config flow in progress                     *)
(*   peer                  the client of a second config entry             *)
(*   threads               the worker threads running client operations    *)
(***************************************************************************)
VARIABLES cfg, max_events, account, original_adapter_cls, HTTP_ADAPTER_CLS,
          calendar, data, writes, last, entity, flow, peer, threads

vars == <<cfg, max_events, account, original_adapter_cls, HTTP_ADAPTER_CLS,
          calendar, data, writes, last, entity, flow, peer, threads>>

\* the parts of the state the client's own operations leave alone
host == <<entity, flow, peer, threads>>

State == ClientState(account, original_adapter_cls, HTTP_ADAPTER_CLS)

NoInner == [exc |-> None, value |-> <<>>]

Last(op, r, inner, uid, args, log, before) ==
    [op |-> op, exc |-> r.exc, lib |-> r.lib, at |-> r.at, connects |-> r.connects,
     views |-> r.views, fetches |-> r.fetches, value |-> r.value, inner |-> inner,
     pos |-> r.pos, uid |-> uid, args |-> args, log |-> log,
     was_connected |-> before # NoAccount]

(***************************************************************************)
(* The state outside the entry's client, before anything has run: the      *)
(* calendar platform has added no entity, no config flow is open, the      *)
(* second entry's client has just been built and no worker thread runs.    *)
(***************************************************************************)
\* options: config_entry.options; life: which of the entities added so far
NoEntity == [added |-> FALSE, options |-> <<>>, supported_features |-> {}, life |-> 0]

\* step: the form the flow shows, or how it ended; validated: the inputs
\* validate_connection accepted in this flow; entries: the entries created
NoFlow == [step |-> "closed", auth_data |-> <<>>, errors |-> <<>>, validated |-> <<>>,
           entries |-> <<>>]

\* the second entry's client: built with allow_insecure_ssl=True
PeerConfig == ClientConfig(AUTH_TYPE_NTLM, "DOM\\user", "DOM", TRUE)

NoPeer == [cfg |-> PeerConfig, account |-> NoAccount, orig |-> None]

\* pc: the statement the thread is at; op: the client method it runs;
\* returned: what its _ensure_connected returned; exc: what its last job raised
Threads == {"poll", "service"}

NoThreads == [t \in Threads |-> [pc |-> "idle", op |-> None, returned |-> NoAccount,
                                 exc |-> Ok]]

Init ==
    /\ cfg \in ClientConfigs
    /\ max_events \in 1..MaxEventsOpt
    /\ account = NoAccount
    /\ original_adapter_cls = None
    /\ HTTP_ADAPTER_CLS = "HTTPAdapter"
    /\ calendar \in Calendars
    /\ data = NoData
    /\ writes = 0
    /\ last = [op |-> "init", exc |-> Ok, lib |-> Ok, at |-> None, connects |-> 0,
               views |-> 0, fetches |-> 0, value |-> <<>>, inner |-> NoInner,
               pos |-> 0, uid |-> None, args |-> NoArgs, log |-> <<>>, was_connected |-> FALSE]
    /\ entity = NoEntity
    /\ flow = NoFlow
    /\ peer = NoPeer
    /\ threads = NoThreads

\* the client state an operation leaves
Leaves(r) ==
    /\ account' = r.st.account
    /\ original_adapter_cls' = r.st.orig
    /\ HTTP_ADAPTER_CLS' = r.st.adapter

\* the library's outcomes a call can have; a call that is not made has none
Outcomes(made, faults) == IF made THEN {Ok} \cup faults ELSE {Ok}

(***************************************************************************)
(* async_setup_entry: the entry's client connects.                         *)
(***************************************************************************)
Connect ==
    \E co \in {Ok} \cup ConnectFaults :
        \E r \in {connect(cfg, State, co)} :
            /\ Leaves(r)
            /\ last' = Last("connect", r, NoInner, None, NoArgs, <<>>, account)
            /\ UNCHANGED <<cfg, max_events, calendar, data, writes, host>>

(***************************************************************************)
(* The config flow validates the connection.                               *)
(***************************************************************************)
ValidateConnection ==
    \E co \in {Ok} \cup ConnectFaults :
      \E vo \in Outcomes(co = Ok, ViewFaults) :
        \E r \in {validate_connection(cfg, State, calendar, co, vo)} :
            /\ Leaves(r)
            /\ last' = Last("validate_connection", r, NoInner, None, NoArgs, <<>>, account)
            /\ UNCHANGED <<cfg, max_events, calendar, data, writes, host>>

(***************************************************************************)
(* A poll: the host runs _async_update_data and caches what it returns.    *)
(***************************************************************************)
Poll ==
    \E co \in Outcomes(account = NoAccount, ConnectFaults) :
      \E vo \in Outcomes(co = Ok, ViewFaults) :
        \E r \in {_async_update_data(cfg, State, calendar, max_events, co, vo)},
           ge \in {get_events(cfg, State, calendar, max_events, co, vo)} :
            /\ Leaves(r)
            /\ data' = HostRefresh(data, r)
            /\ last' = Last("poll", r, [exc |-> ge.exc, value |-> ge.value],
                            None, NoArgs, <<>>, account)
            /\ UNCHANGED <<cfg, max_events, calendar, writes, host>>

(***************************************************************************)
(* update_event and delete_event, run for the entity's services.           *)
(***************************************************************************)
WriteFaults == {"ErrorItemNotFound", "TransportError"}

UpdateEvent ==
    /\ writes < MaxWrites
    /\ \E uid \in Uids, args \in UpdateArgs :
        \E co \in Outcomes(account = NoAccount, ConnectFaults) :
          \E fo \in Outcomes(co = Ok, WriteFaults) :
            \E so \in Outcomes(fo = Ok, WriteFaults) :
              \E r \in {update_event(cfg, State, calendar, uid, args, co, fo, so)} :
                  /\ Leaves(r)
                  /\ calendar' = r.cal
                  /\ writes' = writes + Len(r.log)
                  /\ last' = Last("update_event", r, NoInner, uid, args, r.log, account)
                  /\ UNCHANGED <<cfg, max_events, data, host>>

DeleteEvent ==
    /\ writes < MaxWrites
    /\ \E uid \in Uids :
        \E co \in Outcomes(account = NoAccount, ConnectFaults) :
          \E fo \in Outcomes(co = Ok, WriteFaults) :
            \E so \in Outcomes(fo = Ok, WriteFaults) :
              \E r \in {delete_event(cfg, State, calendar, uid, co, fo, so)} :
                  /\ Leaves(r)
                  /\ calendar' = r.cal
                  /\ writes' = writes + Len(r.log)
                  /\ last' = Last("delete_event", r, NoInner, uid, NoArgs, r.log, account)
                  /\ UNCHANGED <<cfg, max_events, data, host>>

(***************************************************************************)
(* The host reads the entity: its event property at a reading of the       *)
(* clock, and async_get_events for a range.  Neither goes to the client.   *)
(***************************************************************************)
\* dt_util.now(), and the bounds of a range: datetimes in the host's timezone
Nows ==
    {PyDateTime(1, 12, TRUE, DEFAULT_TIME_ZONE), PyDateTime(2, 1, TRUE, DEFAULT_TIME_ZONE),
     PyDateTime(2, 13, TRUE, DEFAULT_TIME_ZONE), PyDateTime(3, 12, TRUE, DEFAULT_TIME_ZONE)}

Ranges == {rg \in Nows \X Nows : Instant(rg[1]) < Instant(rg[2])}

\* what a read of the entity leaves in last
Asked(op, now, start_date, end_date, result, value) ==
    [op |-> op, exc |-> Ok, lib |-> Ok, at |-> None, connects |-> 0, views |-> 0,
     fetches |-> 0, value |-> value, inner |-> NoInner, pos |-> 0, uid |-> None,
     args |-> NoArgs, log |-> <<>>, was_connected |-> account # NoAccount,
     now |-> now, start_date |-> start_date, end_date |-> end_date, result |-> result]

Event ==
    \E now \in Nows :
        /\ last' = Asked("event", now, NoneDate, NoneDate, event(data.events, now), <<>>)
        /\ UNCHANGED <<cfg, max_events, account, original_adapter_cls, HTTP_ADAPTER_CLS,
                       calendar, data, writes, host>>

AsyncGetEvents ==
    \E rg \in Ranges :
        /\ last' = Asked("async_get_events", NoneDate, rg[1], rg[2], NoEvent,
                         async_get_events(data.events, rg[1], rg[2]))
        /\ UNCHANGED <<cfg, max_events, account, original_adapter_cls, HTTP_ADAPTER_CLS,
                       calendar, data, writes, host>>

(***************************************************************************)
(* ExchangeCalendarConfigFlow.  The host calls the step whose form the     *)
(* flow shows, with the user's input.                                      *)
(***************************************************************************)
CredentialSteps == {AUTH_TYPE_NTLM, AUTH_TYPE_BASIC, AUTH_TYPE_OAUTH2}

\* what the user can submit to a credential form
UserInputs(auth_type) == {c \in ClientConfigs : c.auth_type = auth_type}

\* the client a credential step builds from the input
FlowClient(auth_type, user_input) ==
    IF auth_type = AUTH_TYPE_NTLM
    THEN ClientConfig(auth_type, user_input.username,
                      IF user_input.domain = None THEN "" ELSE user_input.domain,
                      user_input.allow_insecure_ssl)
    ELSE IF auth_type = AUTH_TYPE_BASIC
    THEN ClientConfig(auth_type, user_input.username, None, FALSE)
    ELSE ClientConfig(auth_type, user_input.email, None, FALSE)

\* the keys of self._auth_data a credential step stores
AuthKeys(auth_type) ==
    IF auth_type = AUTH_TYPE_NTLM
    THEN {"auth_type", "server", "email", "username", "password", "domain",
          "allow_insecure_ssl"}
    ELSE IF auth_type = AUTH_TYPE_BASIC
    THEN {"auth_type", "server", "email", "username", "password"}
    ELSE {"auth_type", "email", "client_id", "client_secret", "tenant_id"}

AuthData(auth_type, user_input) ==
    [k \in AuthKeys(auth_type) |->
        IF k = "auth_type" THEN auth_type
        ELSE IF k = "domain" /\ user_input[k] = None THEN ""
        ELSE user_input[k]]

\* as FlowError, with the broadest except clause first
FlowErrorUnknown(e) ==
    IF Catches({"Exception"}, e) THEN "unknown"
    ELSE IF Catches({"ExchangeAuthError"}, e) THEN "invalid_auth"
    ELSE "cannot_connect"

\* errors["base"], by the except clauses of a credential step
FlowError(e) ==
    IF Catches({"ExchangeAuthError"}, e) THEN "invalid_auth"
    ELSE IF Catches({"ExchangeConnectionError"}, e) THEN "cannot_connect"
    ELSE "unknown"

\* _abort_if_unique_id_configured: an entry with this unique id exists
UniqueIdConfigured(fl, user_input) ==
    \E k \in 1..Len(fl.entries) : fl.entries[k].data.email = user_input.email

(***************************************************************************)
(* async_step_ntlm, async_step_basic, async_step_oauth2 with user input:   *)
(* exc is what the try block raised, or Ok.                                *)
(***************************************************************************)
async_step_credentials(fl, auth_type, user_input, exc) ==
    IF exc # Ok
    THEN [fl EXCEPT !.errors = <<FlowError(exc)>>]
    ELSE IF UniqueIdConfigured(fl, user_input)
    THEN [fl EXCEPT !.step = "abort", !.errors = <<>>,
                    !.validated = Append(@, [auth_type |-> auth_type,
                                             user_input |-> user_input])]
    ELSE [fl EXCEPT !.step = "options", !.errors = <<>>,
                    !.auth_data = AuthData(auth_type, user_input),
                    !.validated = Append(@, [auth_type |-> auth_type,
                                             user_input |-> user_input])]

\* async_step_options with user input
async_step_options(fl, user_input) ==
    [fl EXCEPT !.step = "create_entry",
               !.entries = Append(@, [data |-> fl.auth_data, options |-> user_input])]

\* the options a user can submit
OptionsInputs == {[read_only |-> FALSE], [read_only |-> TRUE]}

\* what a step of the flow leaves in last
Stepped(op, r, user_input) ==
    Last(op, r, NoInner, None, NoArgs, <<>>, NoAccount) @@ [user_input |-> user_input]

\* the host opens a flow: async_step_user without input shows the first form
FlowInit ==
    /\ flow.step \in {"closed", "create_entry", "abort"}
    /\ flow' = [NoFlow EXCEPT !.step = "user", !.entries = flow.entries]
    /\ last' = Stepped("async_step_user", Outcome(Ok, State, <<>>, Ok, None, 0, 0), <<>>)
    /\ UNCHANGED <<cfg, max_events, account, original_adapter_cls, HTTP_ADAPTER_CLS,
                   calendar, data, writes, entity, peer, threads>>

\* async_step_user with input: the credential form of the chosen type
StepUser ==
    /\ flow.step = "user"
    /\ \E auth_type \in CredentialSteps :
          /\ flow' = [flow EXCEPT !.step = auth_type, !.errors = <<>>]
          /\ last' = Stepped("async_step_user", Outcome(Ok, State, <<>>, Ok, None, 0, 0),
                             [auth_type |-> auth_type])
    /\ UNCHANGED <<cfg, max_events, account, original_adapter_cls, HTTP_ADAPTER_CLS,
                   calendar, data, writes, entity, peer, threads>>

\* a credential step with input.  jo: what the executor does with the job
\* (Ok: it runs validate_connection); co, vo: as for validate_connection
StepCredentials ==
    /\ flow.step \in CredentialSteps
    /\ \E user_input \in UserInputs(flow.step), jo \in {Ok, "RuntimeError"} :
        \E co \in Outcomes(jo = Ok, ConnectFaults) :
          \E vo \in Outcomes(jo = Ok /\ co = Ok, ViewFaults) :
            \E r \in {IF jo # Ok
                       THEN Outcome(jo, ClientState(NoAccount, None, HTTP_ADAPTER_CLS), <<>>,
                                    jo, "async_add_executor_job", 0, 0)
                       ELSE validate_connection(FlowClient(flow.step, user_input),
                                ClientState(NoAccount, None, HTTP_ADAPTER_CLS),
                                calendar, co, vo)} :
                /\ HTTP_ADAPTER_CLS' = r.st.adapter
                /\ flow' = async_step_credentials(flow, flow.step, user_input, r.exc)
                /\ last' = Stepped("async_step_" \o flow.step, r, user_input)
    /\ UNCHANGED <<cfg, max_events, account, original_adapter_cls, calendar, data, writes,
                   entity, peer, threads>>

StepOptions ==
    /\ flow.step = "options"
    /\ \E user_input \in OptionsInputs :
          /\ flow' = async_step_options(flow, user_input)
          /\ last' = Stepped("async_step_options", Outcome(Ok, State, <<>>, Ok, None, 0, 0),
                             user_input)
    /\ UNCHANGED <<cfg, max_events, account, original_adapter_cls, HTTP_ADAPTER_CLS,
                   calendar, data, writes, entity, peer, threads>>

(***************************************************************************)
(* ExchangeCalendarEntity.__init__: the entity's supported features, from  *)
(* the entry's options.                                                    *)
(***************************************************************************)
DEFAULT_READ_ONLY == FALSE

\* as SupportedFeatures, with the test of read_only inverted
SupportedFeaturesInverted(options) ==
    IF ~(IF "read_only" \in DOMAIN options THEN options.read_only ELSE DEFAULT_READ_ONLY)
    THEN {}
    ELSE {"CREATE_EVENT", "DELETE_EVENT", "UPDATE_EVENT"}

SupportedFeatures(options) ==
    IF (IF "read_only" \in DOMAIN options THEN options.read_only ELSE DEFAULT_READ_ONLY)
    THEN {}
    ELSE {"CREATE_EVENT", "DELETE_EVENT", "UPDATE_EVENT"}

\* the options of a config entry: as the options form gives them, or without
\* the read_only key
EntryOptions == OptionsInputs \cup {<<>>}

\* calendar.async_setup_entry: the platform adds the entry's entity
AddEntity ==
    /\ ~entity.added
    /\ \E options \in EntryOptions :
          entity' = [added |-> TRUE, options |-> options,
                     supported_features |-> SupportedFeatures(options), life |-> 1]
    /\ UNCHANGED <<cfg, max_events, account, original_adapter_cls, HTTP_ADAPTER_CLS,
                   calendar, data, writes, last, flow, peer, threads>>

\* the options flow saves new options and _async_update_options reloads the
\* entry: its entity is removed and the platform adds a new one
ReloadEntry ==
    /\ entity.added
    /\ entity.life < MaxLives
    /\ \E options \in EntryOptions :
          entity' = [added |-> TRUE, options |-> options,
                     supported_features |-> SupportedFeatures(options),
                     life |-> entity.life + 1]
    /\ UNCHANGED <<cfg, max_events, account, original_adapter_cls, HTTP_ADAPTER_CLS,
                   calendar, data, writes, last, flow, peer, threads>>

(***************************************************************************)
(* The SSL settings.  _restore_ssl is called on the entry's client; the    *)
(* second entry's client connects in the same process, so both work on the *)
(* one BaseProtocol.HTTP_ADAPTER_CLS.                                      *)
(***************************************************************************)
RestoreSsl ==
    \E r \in {Outcome(Ok, _restore_ssl(cfg, State), <<>>, Ok, None, 0, 0)} :
        /\ Leaves(r)
        /\ last' = Last("_restore_ssl", r, NoInner, None, NoArgs, <<>>, account)
                     @@ [had_original |-> original_adapter_cls # None]
        /\ UNCHANGED <<cfg, max_events, calendar, data, writes, host>>

\* async_setup_entry of the second entry: its client connects
PeerConnect ==
    \E co \in {Ok} \cup ConnectFaults :
        \E r \in {connect(peer.cfg, ClientState(peer.account, peer.orig, HTTP_ADAPTER_CLS), co)} :
            /\ peer' = [peer EXCEPT !.account = r.st.account, !.orig = r.st.orig]
            /\ HTTP_ADAPTER_CLS' = r.st.adapter
            /\ last' = Last("peer_connect", r, NoInner, None, NoArgs, <<>>, peer.account)
            /\ UNCHANGED <<cfg, max_events, account, original_adapter_cls, calendar, data,
                           writes, entity, flow, threads>>

(***************************************************************************)
(* _clean_server applied to a server string, and again to what it gave.    *)
(***************************************************************************)
CleanServer ==
    /\ last' = [op |-> "_clean_server", server |-> last.value,
                value |-> _clean_server(last.value)]
    /\ UNCHANGED <<cfg, max_events, account, original_adapter_cls, HTTP_ADAPTER_CLS,
                   calendar, data, writes, host>>

(***************************************************************************)
(* The entity's services: the client operation in a worker thread, then    *)
(* the request for a refresh.                                              *)
(***************************************************************************)
\* what a service of the entity leaves in the state
Served(op, r, uid, args) ==
    /\ Leaves(r)
    /\ calendar' = r.cal
    /\ writes' = writes + Len(r.log)
    /\ last' = Last(op, [r EXCEPT !.exc = async_service(r).exc],
                    [exc |-> r.exc, value |-> <<>>], uid, args, r.log, account)
                 @@ [refresh_requests |-> async_service(r).refresh_requests]
    /\ UNCHANGED <<cfg, max_events, data, host>>

AsyncCreateEvent ==
    /\ writes < MaxWrites
    /\ \E args \in CreateArgs :
        \E co \in Outcomes(account = NoAccount, ConnectFaults) :
          \E so \in Outcomes(co = Ok, WriteFaults) :
            Served("async_create_event", create_event(cfg, State, calendar, args, co, so),
                   None, args)

AsyncUpdateEvent ==
    /\ writes < MaxWrites
    /\ \E uid \in Uids, args \in UpdateArgs :
        \E co \in Outcomes(account = NoAccount, ConnectFaults) :
          \E fo \in Outcomes(co = Ok, WriteFaults) :
            \E so \in Outcomes(fo = Ok, WriteFaults) :
              Served("async_update_event",
                     update_event(cfg, State, calendar, uid, args, co, fo, so), uid, args)

AsyncDeleteEvent ==
    /\ writes < MaxWrites
    /\ \E uid \in Uids :
        \E co \in Outcomes(account = NoAccount, ConnectFaults) :
          \E fo \in Outcomes(co = Ok, WriteFaults) :
            \E so \in Outcomes(fo = Ok, WriteFaults) :
              Served("async_delete_event",
                     delete_event(cfg, State, calendar, uid, co, fo, so), uid, NoArgs)

(***************************************************************************)
(* Two worker threads on the one client: the poll's get_events and the     *)
(* service's create_event, statement by statement through                  *)
(* _ensure_connected.  A step is one read or one write of self._account.   *)
(***************************************************************************)
\* the thread t at statement pc, the other thread as it is
At(t, pc, returned, exc) ==
    [threads EXCEPT ![t] = [@ EXCEPT !.pc = pc, !.returned = returned, !.exc = exc]]

\* hass.async_add_executor_job hands the method to the thread
ThreadStart(t) ==
    /\ threads[t].pc = "idle"
    /\ t = "service" => writes < MaxWrites
    /\ threads' = [threads EXCEPT ![t] =
                      [pc |-> "check", op |-> IF t = "poll" THEN "get_events" ELSE "create_event",
                       returned |-> NoAccount, exc |-> Ok]]
    /\ UNCHANGED <<cfg, max_events, account, original_adapter_cls, HTTP_ADAPTER_CLS,
                   calendar, data, writes, last, entity, flow, peer>>

\* _ensure_connected: if self._account is None
ThreadCheck(t) ==
    /\ threads[t].pc = "check"
    /\ threads' = At(t, IF account = NoAccount THEN "connect" ELSE "return", NoAccount, Ok)
    /\ UNCHANGED <<cfg, max_events, account, original_adapter_cls, HTTP_ADAPTER_CLS,
                   calendar, data, writes, last, entity, flow, peer>>

\* _ensure_connected: self.connect()
ThreadConnect(t) ==
    /\ threads[t].pc = "connect"
    /\ \E co \in {Ok} \cup ConnectFaults :
        \E r \in {connect(cfg, State, co)} :
            /\ Leaves(r)
            /\ threads' = At(t, IF r.exc = Ok THEN "return" ELSE "idle", NoAccount, r.exc)
    /\ UNCHANGED <<cfg, max_events, calendar, data, writes, last, entity, flow, peer>>

\* _ensure_connected: return self._account
ThreadReturn(t) ==
    /\ threads[t].pc = "return"
    /\ threads' = At(t, "use", account, Ok)
    /\ UNCHANGED <<cfg, max_events, account, original_adapter_cls, HTTP_ADAPTER_CLS,
                   calendar, data, writes, last, entity, flow, peer>>

\* tz = account.default_timezone, on what _ensure_connected returned
ThreadUse(t) ==
    /\ threads[t].pc = "use"
    /\ threads' = IF threads[t].returned = NoAccount
                  THEN At(t, "idle", NoAccount, "AttributeError")
                  ELSE At(t, IF t = "poll" THEN "view" ELSE "save", threads[t].returned, Ok)
    /\ UNCHANGED <<cfg, max_events, account, original_adapter_cls, HTTP_ADAPTER_CLS,
                   calendar, data, writes, last, entity, flow, peer>>

\* the rest of get_events on the account returned, and the host's caching
ThreadView(t) ==
    /\ threads[t].pc = "view"
    /\ \E vo \in {Ok} \cup ViewFaults :
        \E r \in {get_events(cfg, ClientState(threads[t].returned, original_adapter_cls,
                                               HTTP_ADAPTER_CLS),
                              calendar, max_events, Ok, vo)} :
            /\ account' = IF r.st.account = NoAccount THEN NoAccount ELSE account
            /\ data' = HostRefresh(data, r)
            /\ threads' = At(t, "idle", threads[t].returned, r.exc)
    /\ UNCHANGED <<cfg, max_events, original_adapter_cls, HTTP_ADAPTER_CLS, calendar,
                   writes, last, entity, flow, peer>>

\* the rest of create_event on the account returned
ThreadSave(t) ==
    /\ threads[t].pc = "save"
    /\ \E args \in CreateArgs, so \in {Ok} \cup WriteFaults :
        \E r \in {create_event(cfg, ClientState(threads[t].returned, original_adapter_cls,
                                                 HTTP_ADAPTER_CLS),
                                calendar, args, Ok, so)} :
            /\ calendar' = r.cal
            /\ writes' = writes + Len(r.log)
            /\ threads' = At(t, "idle", threads[t].returned, r.exc)
    /\ UNCHANGED <<cfg, max_events, account, original_adapter_cls, HTTP_ADAPTER_CLS,
                   data, last, entity, flow, peer>>

(***************************************************************************)
(* Spec: the entry of an NTLM client is set up, polled, and its events are *)
(* deleted, for every calendar the server can hold.                        *)
(***************************************************************************)
EntryConfig == ClientConfig(AUTH_TYPE_NTLM, "user", "DOM", FALSE)

InitEntry ==
    /\ Init
    /\ cfg = EntryConfig

Next == Connect \/ Poll \/ DeleteEvent

Spec == InitEntry /\ [][Next]_vars

(***************************************************************************)
(* SpecConnect: a client of any configuration connects, is validated and   *)
(* is polled; the calendar is one of two.                                  *)
(***************************************************************************)
InitConnect ==
    /\ Init
    /\ max_events = 1
    /\ Len(calendar) <= 1
    /\ \A i \in 1..Len(calendar) : calendar[i].uid = "u1"

NextConnect == Connect \/ ValidateConnection \/ Poll

SpecConnect == InitConnect /\ [][NextConnect]_vars

(***************************************************************************)
(* SpecWrite: the events of an NTLM client are updated and deleted.        *)
(***************************************************************************)
InitWrite ==
    /\ Init
    /\ cfg = EntryConfig
    /\ max_events = 1

NextWrite == UpdateEvent \/ DeleteEvent

SpecWrite == InitWrite /\ [][NextWrite]_vars

(***************************************************************************)
(* SpecQuery: the entry is polled and the host reads the entity.           *)
(***************************************************************************)
InitQuery ==
    /\ Init
    /\ cfg = EntryConfig
    /\ max_events = MaxEventsOpt

NextQuery == Poll \/ Event \/ AsyncGetEvents

SpecQuery == InitQuery /\ [][NextQuery]_vars

(***************************************************************************)
(* SpecFlow: config flows, one after the other.                            *)
(***************************************************************************)
InitFlow ==
    /\ InitConnect
    /\ cfg = EntryConfig

NextFlow == FlowInit \/ StepUser \/ StepCredentials \/ StepOptions

SpecFlow == InitFlow /\ [][NextFlow]_vars

(***************************************************************************)
(* SpecFeatures: the entry's entity is added, read, polled and replaced on *)
(* a reload.                                                               *)
(***************************************************************************)
NextFeatures == AddEntity \/ ReloadEntry \/ Poll \/ Event

SpecFeatures == InitFlow /\ [][NextFeatures]_vars

(***************************************************************************)
(* SpecSsl: two clients in one process connect; the first is also polled   *)
(* and has its SSL settings restored.                                      *)
(***************************************************************************)
NextSsl == Connect \/ Poll \/ RestoreSsl \/ PeerConnect

SpecSsl == InitConnect /\ [][NextSsl]_vars

(***************************************************************************)
(* SpecClean: a client is built for any server string.                     *)
(***************************************************************************)
InitClean ==
    /\ cfg = EntryConfig
    /\ max_events = 1
    /\ account = NoAccount
    /\ original_adapter_cls = None
    /\ HTTP_ADAPTER_CLS = "HTTPAdapter"
    /\ calendar = <<>>
    /\ data = NoData
    /\ writes = 0
    /\ \E server \in UNION {[1..n -> ServerChars] : n \in 0..MaxServerLen} :
          last = [op |-> "__init__", server |-> server, value |-> server]
    /\ entity = NoEntity
    /\ flow = NoFlow
    /\ peer = NoPeer
    /\ threads = NoThreads

NextClean == CleanServer

SpecClean == InitClean /\ [][NextClean]_vars

(***************************************************************************)
(* SpecService: the entry is polled and its entity's services are called.  *)
(***************************************************************************)
NextService == Poll \/ AsyncCreateEvent \/ AsyncUpdateEvent \/ AsyncDeleteEvent

SpecService == InitFlow /\ [][NextService]_vars

(***************************************************************************)
(* SpecLifecycle: the entry's client connects at setup, is polled and      *)
(* serves the entity.                                                      *)
(***************************************************************************)
NextLifecycle ==
    Connect \/ Poll \/ AsyncCreateEvent \/ AsyncUpdateEvent \/ AsyncDeleteEvent

SpecLifecycle == InitFlow /\ [][NextLifecycle]_vars

(***************************************************************************)
(* SpecThreads: a poll and a service call of an entry run in two worker    *)
(* threads, in every interleaving.                                         *)
(***************************************************************************)
NextThreads ==
    \E t \in Threads :
        \/ ThreadStart(t)
        \/ ThreadCheck(t)
        \/ ThreadConnect(t)
        \/ ThreadReturn(t)
        \/ ThreadUse(t)
        \/ ThreadView(t)
        \/ ThreadSave(t)

SpecThreads == InitFlow /\ [][NextThreads]_vars

(***************************************************************************)
(* The claims.                                                             *)
(***************************************************************************)
\* the normalized start key of a record: a timed start with its timezone
\* dropped, an all-day date as midnight of that date
NormalizedStart(ev) ==
    IF ev.start.cls \in {"datetime", "EWSDateTime"}
    THEN ev.start.d * HoursPerDay + ev.start.h
    ELSE ev.start.d * HoursPerDay

NonDecreasing(events) ==
    \A i, j \in 1..Len(events) : i < j => NormalizedStart(events[i]) <= NormalizedStart(events[j])

PollFetched == last.op = "poll" /\ last.inner.exc = Ok

\* C1: the list get_events returns is in non-decreasing order of the normalized
\* start key and holds at most max_events records.
C1_SortedAndBounded ==
    PollFetched =>
        /\ NonDecreasing(last.inner.value)
        /\ Len(last.inner.value) <= max_events

\* C1 witness: a fetch of two items the server returned in decreasing key order
C1_Witness ==
    /\ PollFetched
    /\ Len(last.inner.value) = 2
    /\ Len(calendar) >= 2
    /\ NormalizedStart(_convert_calendar_item(calendar[1]))
         > NormalizedStart(_convert_calendar_item(calendar[2]))

\* C2 (as claimed): when the window holds more than max_events items, get_events
\* returns the first max_events elements of the sorted list of all converted
\* window items, whatever order the server returns them in.
C2_SmallestOfWindow ==
    (PollFetched /\ Len(calendar) > max_events) =>
        last.inner.value = Truncate(SortEvents(ConvertAll(calendar)), max_events)

\* C3: a poll that ends in UpdateFailed leaves the coordinator's data unchanged,
\* and a poll that succeeds replaces it by the list get_events returned.
C3_Step ==
    last'.op = "poll" =>
        IF last'.exc = "UpdateFailed" \/ last'.inner.exc # Ok
        THEN data' = data
        ELSE data' = [fetched |-> TRUE, events |-> last'.inner.value]

C3_CacheIsLastSuccess == [][C3_Step]_vars

\* C3 witness: a failed poll after a delete; the cache still holds the list of
\* the last successful poll, with the event that has been deleted since
C3_Witness ==
    /\ last.op = "poll"
    /\ last.exc = "UpdateFailed"
    /\ data.fetched
    /\ \E i \in 1..Len(data.events) :
          \A j \in 1..Len(calendar) : calendar[j].uid # data.events[i].uid

Categories == {"ExchangeAuthError", "ExchangeConnectionError"}

\* C4: every exception get_events raises leaves the poll callback as
\* UpdateFailed, no other exception escapes it, and a poll that does not raise
\* returns the list get_events returned.
C4_PollRaisesOnlyUpdateFailed ==
    last.op = "poll" =>
        /\ last.exc \in {Ok, "UpdateFailed"}
        /\ last.inner.exc # Ok => last.exc = "UpdateFailed"
        /\ last.inner.exc = Ok => (last.exc = Ok /\ last.value = last.inner.value)

\* C4 witness: get_events left with a raw library exception, the poll with
\* UpdateFailed
C4_Witness ==
    /\ last.op = "poll"
    /\ last.inner.exc = "UnauthorizedError"
    /\ last.exc = "UpdateFailed"

\* C5 (as claimed): connect and validate_connection fail only with the two
\* categories: with ExchangeAuthError when the library raised UnauthorizedError
\* or ErrorAccessDenied, with ExchangeConnectionError for every other exception.
C5_AuthErrorsAreAuthCategory ==
    (last.op \in {"connect", "validate_connection"} /\ last.exc # Ok) =>
        last.exc = IF last.lib \in {"UnauthorizedError", "ErrorAccessDenied"}
                   THEN "ExchangeAuthError"
                   ELSE "ExchangeConnectionError"

\* C6 (as claimed): a library exception raised by the calendar-view query leaves
\* get_events as ExchangeAuthError or ExchangeConnectionError, never raw.
C6_FetchErrorsCategorised ==
    (last.op = "poll" /\ last.at = "view" /\ "EWSError" \in Ancestors(last.lib)) =>
        last.inner.exc \in Categories

\* C7: one poll calls get_events once, and that call makes at most one connect
\* attempt (none when the account is stored) and at most one calendar-view
\* query (none when the connect attempt failed).
C7_NoRetryInsidePoll ==
    last.op = "poll" =>
        /\ last.fetches = 1
        /\ last.connects <= 1
        /\ last.views <= 1
        /\ last.was_connected => last.connects = 0
        /\ last.at \in {"Account", "_build_credentials"} => last.views = 0

\* C7 witness: a poll that connected, failed in the view query and stopped there
C7_Witness ==
    /\ last.op = "poll"
    /\ last.exc = "UpdateFailed"
    /\ last.at = "view"
    /\ last.connects = 1
    /\ last.views = 1

WriteOps == {"update_event", "delete_event"}

\* the lookup of the last write ran and found no item
LookupFoundNothing ==
    /\ last.op \in WriteOps
    /\ last.pos = 0
    /\ \/ last.at = None /\ last.lib = Ok
       \/ last.at = "filter" /\ last.lib = "ErrorItemNotFound"

\* C8 (as claimed): update_event and delete_event write only to the item with
\* the given UID; when the lookup finds none they raise ExchangeConnectionError
\* and write nothing; when an item is found, the save or delete is applied to it.
C8_FoundItemIsWritten ==
    last.op \in WriteOps =>
        /\ \A k \in 1..Len(last.log) : last.log[k].uid = last.uid /\ last.log[k].pos = last.pos
        /\ LookupFoundNothing => (last.exc = "ExchangeConnectionError" /\ last.log = <<>>)
        /\ (last.pos > 0 /\ last.exc = Ok) => Len(last.log) = 1

\* C8 (amended): as claimed, but an item that is found is written only by a
\* delete or by an update with at least one argument that is not None; every
\* other item of the calendar is left as it was.
C8_Step ==
    last'.op \in WriteOps =>
        /\ \A k \in 1..Len(last'.log) :
              /\ last'.log[k].uid = last'.uid
              /\ last'.log[k].pos = last'.pos
              /\ calendar[last'.pos].uid = last'.uid
        /\ LookupFoundNothing' => (last'.exc = "ExchangeConnectionError" /\ last'.log = <<>>)
        /\ (last'.pos > 0 /\ last'.exc = Ok
              /\ (last'.op = "delete_event" \/ UpdateFields(last'.args) # <<>>))
             => Len(last'.log) = 1
        /\ (last'.op = "update_event" /\ UpdateFields(last'.args) = <<>>) => last'.log = <<>>
        /\ last'.log = <<>> => calendar' = calendar
        /\ (last'.log # <<>> /\ last'.op = "update_event") =>
              /\ Len(calendar') = Len(calendar)
              /\ \A i \in 1..Len(calendar) : i # last'.pos => calendar'[i] = calendar[i]
        /\ (last'.log # <<>> /\ last'.op = "delete_event") =>
              /\ Len(calendar') = Len(calendar) - 1
              /\ \A i \in 1..Len(calendar') :
                    calendar'[i] = calendar[IF i < last'.pos THEN i ELSE i + 1]

C8_WritesOnlyTheItem == [][C8_Step]_vars

\* C8 witness: an update saved the second item of a calendar of several
C8_Witness ==
    /\ last.op = "update_event"
    /\ last.exc = Ok
    /\ Len(last.log) = 1
    /\ last.pos = 2

\* the start and end of a record, before and after _to_calendar_event
Shown(ev) == <<_to_calendar_event(ev).start, _to_calendar_event(ev).end>>
Stored(ev) == <<ev.start, ev.end>>

\* C9: the record of an all-day item has plain dates as start and end, which
\* _to_calendar_event passes through; _to_calendar_event changes only
\* timezone-aware datetimes, to the same instant in the host's timezone.
C9_AllDayKeepsDates ==
    \A i \in 1..Len(data.events) : \A k \in 1..2 :
        LET ev == data.events[i]
            v == Stored(ev)[k]
            w == Shown(ev)[k]
        IN  /\ ev.is_all_day => (v.cls = "date" /\ ~v.aware /\ v.h = 0 /\ w = v)
            /\ (v.cls = "datetime" /\ v.aware) =>
                  /\ w.cls = "datetime" /\ w.aware /\ w.tz = DEFAULT_TIME_ZONE
                  /\ w.d * HoursPerDay + w.h - w.tz = v.d * HoursPerDay + v.h - v.tz
            /\ ~(v.cls = "datetime" /\ v.aware) => w = v

\* C9 witness: the cache holds an all-day event the server sent with datetimes
\* and a timed event whose start the conversion to local time changes
C9_Witness ==
    /\ \E i \in 1..Len(data.events) :
          /\ data.events[i].is_all_day
          /\ \E j \in 1..Len(calendar) :
                calendar[j].uid = data.events[i].uid /\ calendar[j].start.cls = "EWSDateTime"
    /\ \E i \in 1..Len(data.events) :
          ~data.events[i].is_all_day /\ Shown(data.events[i])[1] # data.events[i].start

KnownAuthTypes == {"ntlm", "basic", "oauth2"}

\* C10: 'ntlm' and 'basic' give username/password Credentials with the
\* configured server and the NTLM / BASIC auth type, 'oauth2' gives
\* OAuth2Credentials against outlook.office365.com; for any other auth type
\* connect stores no Account and fails with ExchangeConnectionError.
C10_ThreeStrategies ==
    /\ account # NoAccount =>
          /\ cfg.auth_type \in KnownAuthTypes
          /\ cfg.auth_type = "ntlm" =>
                /\ account.credentials = "Credentials"
                /\ account.server = cfg.server
                /\ account.auth_type = "NTLM"
          /\ cfg.auth_type = "basic" =>
                /\ account.credentials = "Credentials"
                /\ account.server = cfg.server
                /\ account.auth_type = "BASIC"
          /\ cfg.auth_type = "oauth2" =>
                /\ account.credentials = "OAuth2Credentials"
                /\ account.server = "outlook.office365.com"
    /\ (cfg.auth_type \in KnownAuthTypes /\ last.op = "connect" /\ last.exc = Ok) =>
          account # NoAccount
    /\ cfg.auth_type \notin KnownAuthTypes =>
          /\ account = NoAccount
          /\ last.op \in {"connect", "validate_connection"} =>
                last.exc = "ExchangeConnectionError"
          /\ last.op = "poll" => last.inner.exc = "ExchangeConnectionError"

\* C10 witness: a connect with an unknown auth type failed while the credentials
\* were built
C10_Witness ==
    /\ cfg.auth_type \notin KnownAuthTypes
    /\ last.op = "connect"
    /\ last.at = "_build_credentials"
    /\ last.exc = "ExchangeConnectionError"

\* the instant a start or an end of a cached event denotes, in hours (UTC): an
\* all-day date is the start of that day in the host's timezone, a naive
\* datetime is read in the host's timezone
InstantOf(v) ==
    IF v.cls = "date" THEN v.d * HoursPerDay - DEFAULT_TIME_ZONE
    ELSE IF v.aware THEN v.d * HoursPerDay + v.h - v.tz
    ELSE v.d * HoursPerDay + v.h - DEFAULT_TIME_ZONE

StartInstant(ev) == InstantOf(ev.start)
EndInstant(ev) == InstantOf(ev.end)

\* C11 (as claimed): event returns, among the cached events whose end instant
\* is not before now, one with the earliest start instant, and None when the
\* cache is empty or every cached event has ended.
C11_EarliestUpcoming ==
    last.op = "event" =>
        LET live == {i \in 1..Len(data.events) :
                        EndInstant(data.events[i]) >= Instant(last.now)}
        IN  IF live = {}
            THEN last.result = NoEvent
            ELSE \E i \in live :
                    /\ \A j \in live :
                          StartInstant(data.events[i]) <= StartInstant(data.events[j])
                    /\ last.result = _to_calendar_event(data.events[i])

\* the cached events that overlap the range of the last async_get_events
Overlapping(events, rq) ==
    {i \in 1..Len(events) :
        /\ EndInstant(events[i]) > InstantOf(rq.start_date)
        /\ StartInstant(events[i]) < InstantOf(rq.end_date)}

\* C12: async_get_events returns exactly the cached events that overlap the
\* range (end > start_date and start < end_date, an all-day date taken as the
\* start of the local day), converted, in cache order; an empty list when the
\* cache is empty; it makes no request to the client and leaves the cached data
\* as it is.
C12_Step ==
    last'.op = "async_get_events" =>
        LET idx == Overlapping(data.events, last')
        IN  /\ Len(last'.value) = Cardinality(idx)
            /\ \A i \in idx :
                  last'.value[Cardinality({j \in idx : j <= i})]
                    = _to_calendar_event(data.events[i])
            /\ data.events = <<>> => last'.value = <<>>
            /\ data' = data
            /\ last'.connects = 0 /\ last'.views = 0 /\ last'.fetches = 0
            /\ UNCHANGED <<account, original_adapter_cls, HTTP_ADAPTER_CLS, calendar>>

C12_RangeFromCache == [][C12_Step]_vars

\* C12 witness: a range query over a cache of two events that returned the
\* second only; the first ends at the very instant the range starts
C12_Witness ==
    /\ last.op = "async_get_events"
    /\ Len(data.events) = 2
    /\ Len(last.value) = 1
    /\ last.value[1].uid = data.events[2].uid
    /\ EndInstant(data.events[1]) = InstantOf(last.start_date)

\* the credential steps, as they appear in last.op
CredentialOps == {"async_step_ntlm", "async_step_basic", "async_step_oauth2"}

\* C13: an entry is created only by the options step of a flow whose last
\* credential input validate_connection accepted, with that input's data; a
\* credential step whose validation raises shows the same form again with
\* errors['base'] = 'invalid_auth' for ExchangeAuthError, 'cannot_connect' for
\* ExchangeConnectionError and 'unknown' otherwise, creates no entry and stores
\* no credentials in the flow.
C13_Step ==
    /\ flow'.entries # flow.entries =>
          /\ flow.step = "options"
          /\ last'.op = "async_step_options"
          /\ flow.validated # <<>>
          /\ LET v == flow.validated[Len(flow.validated)]
             IN  flow'.entries =
                    Append(flow.entries,
                           [data |-> [k \in DOMAIN flow.auth_data |->
                                         IF k = "auth_type" THEN v.auth_type
                                         ELSE IF k = "domain" /\ v.user_input[k] = None THEN ""
                                         ELSE v.user_input[k]],
                            options |-> last'.user_input])
          /\ flow.auth_data # <<>>
    /\ (last'.op \in CredentialOps /\ last'.exc # Ok) =>
          /\ flow'.step = flow.step
          /\ flow'.errors = << CASE last'.exc = "ExchangeAuthError" -> "invalid_auth"
                                 [] last'.exc = "ExchangeConnectionError" -> "cannot_connect"
                                 [] OTHER -> "unknown" >>
          /\ flow'.entries = flow.entries
          /\ flow'.auth_data = <<>>
          /\ flow'.validated = flow.validated
    /\ (last'.op \in CredentialOps /\ last'.exc = Ok) => flow'.step \in {"options", "abort"}

C13_EntryOnlyAfterValidation == [][C13_Step]_vars

\* C13 witness: an entry exists, created by a flow, and a later flow's NTLM step
\* shows its form again after the executor failed
C13_Witness ==
    /\ Len(flow.entries) = 1
    /\ flow.entries[1].data.auth_type = "oauth2"
    /\ flow.step = "ntlm"
    /\ flow.errors = <<"unknown">>
    /\ last.op = "async_step_ntlm"

AllWrites == {"CREATE_EVENT", "UPDATE_EVENT", "DELETE_EVENT"}

\* C14: an entity's supported features are empty when its entry's read_only
\* option is true and are CREATE_EVENT, UPDATE_EVENT and DELETE_EVENT when it is
\* false or absent, and they stay the same for as long as the entity lives.
C14_Step ==
    /\ entity'.added =>
          /\ ("read_only" \in DOMAIN entity'.options /\ entity'.options.read_only)
                => entity'.supported_features = {}
          /\ ("read_only" \in DOMAIN entity'.options /\ ~entity'.options.read_only)
                => entity'.supported_features = AllWrites
          /\ "read_only" \notin DOMAIN entity'.options
                => entity'.supported_features = AllWrites
    /\ (entity.added /\ entity'.life = entity.life) =>
          /\ entity'.added
          /\ entity'.supported_features = entity.supported_features

C14_FeaturesFollowReadOnly == [][C14_Step]_vars

\* C14 witness: a read-only entity that replaced another one and has been
\* polled and read since
C14_Witness ==
    /\ entity.added
    /\ entity.life = 2
    /\ entity.options = [read_only |-> TRUE]
    /\ entity.supported_features = {}
    /\ last.op = "event"
    /\ data.fetched

\* the adapter class the library starts with
LibraryAdapter == "HTTPAdapter"

\* C15 (as claimed): when _restore_ssl runs on a client that disabled
\* verification, after any number of connects, and no other client touched the
\* setting, HTTP_ADAPTER_CLS is again the class that was in effect before the
\* client first disabled verification.
C15_RestoreGivesOriginal ==
    (last.op = "_restore_ssl" /\ last.had_original /\ peer.orig = None) =>
        HTTP_ADAPTER_CLS = LibraryAdapter

\* C20 (as claimed): when a client configured with allow_insecure_ssl=False
\* has connected, the adapter class in effect is the one that is in effect
\* when no other client has connected: the library's.
C20_InsecureIsConfined ==
    (last.op = "connect" /\ ~cfg.allow_insecure_ssl) => HTTP_ADAPTER_CLS = LibraryAdapter

\* a server string starts with "http://" or "https://", in any case
HasProtocolPrefix(s) ==
    /\ Len(s) >= 3
    /\ s[1] \in {"https:", "HTTP:"}
    /\ s[2] = "/"
    /\ s[3] = "/"

\* C16 (as claimed): for every server string the result of _clean_server has no
\* protocol prefix and no trailing slash, _clean_server applied to its own
\* result gives that result, and a bare host name is returned as it is.
C16_Step ==
    last'.op = "_clean_server" =>
        /\ ~HasProtocolPrefix(last'.value)
        /\ (last'.value # <<>> => last'.value[Len(last'.value)] # "/")
        /\ last.op = "_clean_server" => last'.value = last.value
        /\ last'.server = <<"ex.example.com">> => last'.value = last'.server

C16_CleanServerNormalises == [][C16_Step]_vars

Services == {"async_create_event", "async_update_event", "async_delete_event"}

\* C17: a service of the entity requests one refresh when the client operation
\* returned and none when it raised; the exception the client operation raised
\* is the one the service leaves with; the service leaves the cached data as it
\* is.
C17_Step ==
    last'.op \in Services =>
        /\ last'.exc = last'.inner.exc
        /\ last'.inner.exc = Ok => last'.refresh_requests = 1
        /\ last'.inner.exc # Ok => (last'.refresh_requests = 0 /\ data' = data)
        /\ data' = data

C17_RefreshAfterSuccessOnly == [][C17_Step]_vars

\* C17 witness: with events in the cache, an update found its item and failed
\* in the save
C17_Witness ==
    /\ last.op = "async_update_event"
    /\ last.exc = "TransportError"
    /\ last.at = "save"
    /\ last.refresh_requests = 0
    /\ data.events # <<>>

\* the operations that go through _ensure_connected
Operations == Services \cup {"poll"}

\* C18: with an account stored, get_events and the three writes make no call
\* to connect; a get_events whose view fails with TransportError,
\* ErrorMailboxStoreUnavailable or ErrorMailboxMoveInProgress leaves no account
\* stored; with no account stored, an operation calls connect exactly once; a
\* connect that fails stores nothing, and an account that is stored is the
\* complete Account of the client's configuration.
C18_Step ==
    /\ (last'.op \in Operations /\ account # NoAccount) =>
          /\ last'.connects = 0
          /\ account' \in {account, NoAccount}
    /\ (last'.op = "poll" /\ last'.at = "view"
           /\ last'.lib \in {"TransportError", "ErrorMailboxStoreUnavailable",
                              "ErrorMailboxMoveInProgress"}) =>
          account' = NoAccount
    /\ (last'.op \in Operations /\ account = NoAccount) => last'.connects = 1
    /\ (last'.op \in Operations \cup {"connect"}
           /\ last'.at \in {"Account", "_build_credentials"}) =>
          account' = account
    /\ account' # NoAccount =>
          /\ account'.cls = "Account"
          /\ account'.email = cfg.email
          /\ account'.server = cfg.server
          /\ account'.credentials = "Credentials"

C18_ConnectionLifecycle == [][C18_Step]_vars

\* C18 witness: after a successful poll the account was reset, and a service
\* of the entity connected once before its write
C18_Witness ==
    /\ last.op \in Services
    /\ data.fetched
    /\ ~last.was_connected
    /\ last.connects = 1
    /\ last.log # <<>>

\* C19 (as claimed): in every interleaving of a poll and a create running in
\* two threads, what _ensure_connected returned to a thread is an account,
\* never None.
C19_EnsureConnectedReturnsAccount ==
    \A t \in Threads : threads[t].pc = "use" => threads[t].returned # NoAccount

\* the item fields update_event can write, and those whose argument is not None
Writable == {"subject", "start", "end", "body", "location"}

Passed(args) ==
    {f \in Writable :
        CASE f = "subject" -> args.summary # None
          [] f = "start" -> args.start # NoneDate
          [] f = "end" -> args.end # NoneDate
          [] f = "body" -> args.description # None
          [] f = "location" -> args.location # None}

\* C21: update_event changes only the fields passed as non-None: the
\* update_fields of its save are exactly the names of the non-None arguments
\* among subject, start, end, body and location, each once; every other field
\* of the item, and every other item, is left as it was; with all five None
\* nothing is saved.
C21_Step ==
    last'.op = "update_event" =>
        /\ \A k \in 1..Len(last'.log) :
              /\ last'.log[k].op = "save"
              /\ {last'.log[k].update_fields[i] : i \in 1..Len(last'.log[k].update_fields)}
                    = Passed(last'.args)
              /\ Len(last'.log[k].update_fields) = Cardinality(Passed(last'.args))
        /\ Passed(last'.args) = {} => (last'.log = <<>> /\ calendar' = calendar)
        /\ (last'.pos > 0 /\ last'.exc = Ok /\ Passed(last'.args) # {}) => Len(last'.log) = 1
        /\ Len(calendar') = Len(calendar)
        /\ \A i \in 1..Len(calendar) : \A f \in DOMAIN calendar[i] :
              (i # last'.pos \/ f \notin Passed(last'.args) \/ last'.log = <<>>)
                  => calendar'[i][f] = calendar[i][f]

C21_UpdateChangesOnlyPassedFields == [][C21_Step]_vars

\* C21 witness: an update with only start and end passed saved exactly those
\* two fields of the item it found
C21_Witness ==
    /\ last.op = "update_event"
    /\ last.exc = Ok
    /\ last.args.summary = None
    /\ last.args.start # NoneDate
    /\ Len(last.log) = 1
    /\ last.log[1].update_fields = <<"start", "end">>
    /\ calendar[last.pos].start = _to_ews_datetime(last.args.start, AccountTimeZone)

====
